---- MODULE Spec2Model ----
(***************************************************************************)
(* ebs-snapshotter: the reconciliation pass of watcher.WatchSnapshots      *)
(* (src/watcher/watcher.go), driven by the loop of cmd/ebs-snapshotter,    *)
(* against an EBS backend reached through clients.EBSClient.               *)
(*                                                                         *)
(* Time is counted in seconds.  time.Now() reads the variable now; the     *)
(* passage of time is the environment step Tick, taken while the process   *)
(* sleeps or waits.  Every client call may succeed or fail (the number of  *)
(* failures in a run is bounded by MaxFailures).                           *)
(***************************************************************************)
EXTENDS Integers, Sequences, FiniteSets, TLC

\* ---------------------------------------------------------------- bounds
MaxRules == 2
MaxSnapshots == 2
MaxPasses == 2
MaxFailures == 2
MaxTicks == 1
MaxListing == 3
MaxPageSize == 2
MaxRequests == MaxListing + 2

\* ------------------------------------------------------ program constants
Second == 1
Hour == 3600 * Second
SleepDelay == 2 * Second
resultsPerRequest == 1000

\* ----------------------------------------------------------- input space
StartTime == 2 * Hour

VolumeIds == {"vol-1", "vol-2"}

Tag(k, v) == [Key |-> k, Value |-> v]

TagValues == {"a", "b"}

\* the tag lists a volume of the inventory may carry (tag keys are unique
\* within one volume)
VolumeTags(v) ==
  IF v = "vol-1"
  THEN { <<Tag("k2", "b"), Tag("k1", "a")>> }
  ELSE { <<Tag("k1", "a")>>, <<Tag("k1", "b")>> }

Inventories ==
  { f \in [ VolumeIds -> UNION { VolumeTags(v) : v \in VolumeIds } ] :
      \A v \in VolumeIds : f[v] \in VolumeTags(v) }

Rule(k, v, i, r) ==
  [Labels |-> Tag(k, v), IntervalSeconds |-> i, RetentionPeriodHours |-> r]

RuleSet ==
  { Rule("k1", "a", 10, 1), Rule("k1", "a", 3600, 0), Rule("k2", "b", 10, 1) }

\* the rule lists of at most MaxRules rules, no rule listed twice
Configs ==
  { c \in UNION { [1..n -> RuleSet] : n \in 0..MaxRules } :
      \A i, j \in 1..Len(c) : i # j => c[i] # c[j] }

Snapshot(id, vol, start, state) ==
  [SnapshotId |-> id, VolumeId |-> vol, StartTime |-> start, State |-> state]

\* the snapshots the backend may hold before the first pass, in the order
\* in which DescribeSnapshots lists them
SnapshotPool ==
  << Snapshot(1, "vol-1", StartTime - Hour, "completed"),
     Snapshot(2, "vol-1", StartTime - 10, "completed"),
     Snapshot(3, "vol-1", StartTime - Hour - 10, "completed"),
     Snapshot(4, "vol-1", StartTime - 5, "error"),
     Snapshot(5, "vol-2", StartTime - Hour - 10, "completed") >>

\* the subsequences of the pool of at most MaxSnapshots elements
RECURSIVE SubSeqs(_, _)
SubSeqs(s, n) ==
  IF s = <<>> \/ n = 0 THEN { <<>> }
  ELSE SubSeqs(Tail(s), n) \cup { <<Head(s)>> \o t : t \in SubSeqs(Tail(s), n - 1) }

\* a nil *ec2.Snapshot
Nil == Snapshot(0, "", 0, "nil")

NoError == "nil"

\* a nil NextToken
NoToken == 0

\* ------------------------------------------------------------- operators
\* errors.Wrap(err, message).Error()
Wrap(err, message) == message \o ": " \o err

\* time.Time.Before and time.Time.After
Before(t, u) == t < u
After(t, u) == t > u

\* SortByStartTime.Less on two snapshots
Less_Ascending(a, b) == Before(a.StartTime, b.StartTime)
Less(a, b) == Before(b.StartTime, a.StartTime)

\* one turn of the loop of MapSnapshotsToVolumes: the snapshot opens the
\* group of its volume id, or is appended to it
AddSnapshot_Replacing(output, snapshot) ==
  [ v \in DOMAIN output \cup {snapshot.VolumeId} |->
      IF v = snapshot.VolumeId THEN <<snapshot>> ELSE output[v] ]
AddSnapshot(output, snapshot) ==
  [ v \in DOMAIN output \cup {snapshot.VolumeId} |->
      IF v # snapshot.VolumeId THEN output[v]
      ELSE IF v \notin DOMAIN output THEN <<snapshot>>
      ELSE Append(output[v], snapshot) ]

\* the loop of MapSnapshotsToVolumes from position i of the list on
RECURSIVE MapFrom(_, _, _)
MapFrom(output, list, i) ==
  IF i > Len(list) THEN output
  ELSE MapFrom(AddSnapshot(output, list[i]), list, i + 1)

\* clients.MapSnapshotsToVolumes
MapSnapshotsToVolumes(list) == MapFrom([ v \in {} |-> <<>> ], list, 1)

Orderings(s) ==
  { [ i \in 1..Len(s) |-> s[p[i]] ] :
      p \in { q \in [1..Len(s) -> 1..Len(s)] :
                \A i, j \in 1..Len(s) : i # j => q[i] # q[j] } }

\* clients.SortSnapshotsByStartTime: sort.Sort orders the slice by Less and
\* promises nothing about the order of elements that compare equal
SortSnapshotsByStartTime(s) ==
  { t \in Orderings(s) :
      \A i, j \in 1..Len(t) : i < j => ~Less(t[j], t[i]) }

\* the indices GetSnapshots may return for a listing
SnapshotIndices(list) ==
  LET m == MapSnapshotsToVolumes(list)
  IN  { f \in [ DOMAIN m -> UNION { SortSnapshotsByStartTime(m[v]) : v \in DOMAIN m } ] :
          \A v \in DOMAIN m : f[v] \in SortSnapshotsByStartTime(m[v]) }

\* snapshots[*volume.VolumeId] on a Go map: a missing key is the empty slice
Lookup(index, v) == IF v \in DOMAIN index THEN index[v] ELSE <<>>

EmptyIndex == [ v \in {} |-> <<>> ]

\* an empty (or nil) map from volume id to snapshot
NoSnapshots == [ v \in {} |-> Nil ]

\* one turn of the loop of MapMostRecentSnapshotToVolumes: the snapshot is
\* kept when its volume has none yet or a snapshot that started before it
KeepMostRecent_Last(output, snapshot) ==
  [ v \in DOMAIN output \cup {snapshot.VolumeId} |->
      IF v = snapshot.VolumeId THEN snapshot ELSE output[v] ]
KeepMostRecent(output, snapshot) ==
  [ v \in DOMAIN output \cup {snapshot.VolumeId} |->
      IF v # snapshot.VolumeId THEN output[v]
      ELSE IF v \notin DOMAIN output THEN snapshot
      ELSE IF Before(output[v].StartTime, snapshot.StartTime) THEN snapshot
      ELSE output[v] ]

\* the loop of MapMostRecentSnapshotToVolumes from position i of the list on
RECURSIVE MostRecentFrom(_, _, _)
MostRecentFrom(output, list, i) ==
  IF i > Len(list) THEN output
  ELSE MostRecentFrom(KeepMostRecent(output, list[i]), list, i + 1)

\* MapMostRecentSnapshotToVolumes of the single-file program
MapMostRecentSnapshotToVolumes(list) == MostRecentFrom(NoSnapshots, list, 1)

Inc(counter, label) == [counter EXCEPT ![label] = @ + 1]

ZeroCounter == [ l \in TagValues |-> 0 ]

\* ----------------------------------------------------------------- state
VARIABLES
  config,               \* the rules handed to WatchSnapshots
  ec2Volumes,           \* backend: volume id -> tag list
  ec2Snapshots,         \* backend: the snapshots, in listing order
  nextId,               \* backend: id of the next snapshot it creates
  now,                  \* the clock read by time.Now()
  ticks,                \* number of Tick steps taken
  failures,             \* number of failed client calls so far
  passes,               \* number of passes started so far
  limit,                \* number of passes the run is followed for
  pc,                   \* position of the process
  volumes,              \* WatchSnapshots: result of GetVolumes
  snapshots,            \* WatchSnapshots: result of GetSnapshots
  ri,                   \* WatchSnapshots: position in range *config
  retentionStartDate,   \* WatchSnapshots: local of the rule loop
  acceptableStartTime,  \* WatchSnapshots: local of the rule loop
  visited,              \* WatchSnapshots: volumes already ranged over
  volume,               \* WatchSnapshots: the volume of the volume loop
  ti,                   \* WatchSnapshots: position in range volume.Tags
  si,                   \* WatchSnapshots: position in the retention sweep
  err,                  \* the value WatchSnapshots returned
  crCounter,            \* created counter, by tag value
  delCounter,           \* deleted counter, by tag value
  errCounter,           \* error counter, by tag value
  calls,                \* the client calls of the current pass, in order
  evals,                \* the rule/volume evaluations of the current pass
  passStart,            \* the clock, backend snapshots and counters when the pass began
  ruleNow,              \* the clock when the dates of the rule were computed
  history,              \* one summary per finished pass
  pageSize,             \* backend: number of items it serves per page
  token,                \* client: NextToken of the response the loop tests
  fetched,              \* client: the items appended so far
  requests,             \* client: the pages requested so far, in order
  lastSnapshots,        \* single-file program: result of getSnapshots
  retentionPeriod       \* single-file program: the retention option, in hours

backend == <<ec2Volumes, ec2Snapshots, nextId>>
clock == <<now, ticks>>
counters == <<crCounter, delCounter, errCounter>>
locals == <<volumes, snapshots, ri, retentionStartDate, acceptableStartTime,
            visited, volume, ti, si>>
paging == <<pageSize, token, fetched, requests>>
single == <<lastSnapshots, retentionPeriod>>
vars == <<config, backend, clock, failures, passes, limit, pc, locals, err,
          counters, calls, evals, passStart, ruleNow, history, paging, single>>

Call(op, v, s, ok) ==
  [op |-> op, rule |-> ri, volume |-> v, snapshot |-> s, ok |-> ok]

\* the error a failing backend request returns
AwsError == "RequestLimitExceeded"

\* the errors of ebsClient.GetVolumes and ebsClient.GetSnapshots
DescribeVolumesError == Wrap(AwsError, "error while describing volumes")
DescribeSnapshotsError == Wrap(AwsError, "error while describing snapshots")

\* what WatchSnapshots returns when GetVolumes fails
FetchVolumesError_Unwrapped(cause) == cause
FetchVolumesError(cause) == Wrap(cause, "error while fetching volumes")

\* what WatchSnapshots returns when GetSnapshots fails
FetchSnapshotsError_AsVolumes(cause) == Wrap(cause, "error while fetching volumes")
FetchSnapshotsError(cause) == Wrap(cause, "error while fetching snapshots")

AllOk(cs) == \A i \in 1..Len(cs) : cs[i].ok

\* the state before the first pass of a run that is followed for l passes
Start(l) ==
  /\ config \in Configs
  /\ ec2Volumes \in Inventories
  /\ ec2Snapshots \in SubSeqs(SnapshotPool, MaxSnapshots)
  /\ nextId = Len(SnapshotPool) + 1
  /\ now = StartTime
  /\ ticks = 0
  /\ failures = 0
  /\ passes = 0
  /\ limit = l
  /\ pc = "idle"
  /\ volumes = [ v \in {} |-> <<>> ]
  /\ snapshots = EmptyIndex
  /\ ri = 0
  /\ retentionStartDate = 0
  /\ acceptableStartTime = 0
  /\ visited = {}
  /\ volume = ""
  /\ ti = 0
  /\ si = 0
  /\ err = NoError
  /\ crCounter = ZeroCounter
  /\ delCounter = ZeroCounter
  /\ errCounter = ZeroCounter
  /\ calls = <<>>
  /\ evals = <<>>
  /\ passStart = [now |-> StartTime, listing |-> <<>>,
                  counters |-> <<ZeroCounter, ZeroCounter, ZeroCounter>>]
  /\ ruleNow = 0
  /\ history = <<>>
  /\ pageSize = resultsPerRequest
  /\ token = NoToken
  /\ fetched = <<>>
  /\ requests = <<>>
  /\ lastSnapshots = NoSnapshots
  /\ retentionPeriod = 0

\* --------------------------------------------------------------- actions
\* the environment: time passes while the process sleeps in the sweep or
\* waits for the next poll
Tick ==
  /\ pc \in {"sleep", "returned"}
  /\ ticks < MaxTicks
  /\ now' = now + SleepDelay
  /\ ticks' = ticks + 1
  /\ UNCHANGED <<single, paging, config, backend, failures, passes, limit, pc, locals, err,
                 counters, calls, evals, passStart, ruleNow, history>>

\* main: the loop calls watcher.WatchSnapshots; WatchSnapshots calls
\* GetVolumes and returns the wrapped error when it fails
PassMayStart_WhileSleeping == pc \in {"idle", "sleep"}
PassMayStart == pc = "idle"

GetVolumes ==
  /\ PassMayStart
  /\ passes < limit
  /\ passes' = passes + 1
  /\ evals' = <<>>
  /\ passStart' = [now |-> now, listing |-> ec2Snapshots, counters |-> counters]
  /\ \/ /\ volumes' = ec2Volumes
        /\ calls' = << Call("GetVolumes", "", 0, TRUE) >>
        /\ pc' = "snapshots"
        /\ err' = NoError
        /\ UNCHANGED failures
     \/ /\ failures < MaxFailures
        /\ failures' = failures + 1
        /\ calls' = << Call("GetVolumes", "", 0, FALSE) >>
        /\ err' = FetchVolumesError(DescribeVolumesError)
        /\ pc' = "returned"
        /\ UNCHANGED volumes
  /\ UNCHANGED <<single, paging, config, backend, clock, limit, snapshots, ri, retentionStartDate,
                 acceptableStartTime, visited, volume, ti, si, counters,
                 ruleNow, history>>

\* WatchSnapshots calls GetSnapshots and returns the wrapped error when it
\* fails
GetSnapshots ==
  /\ pc = "snapshots"
  /\ \/ /\ \E index \in SnapshotIndices(ec2Snapshots) : snapshots' = index
        /\ calls' = Append(calls, Call("GetSnapshots", "", 0, TRUE))
        /\ ri' = 1
        /\ pc' = "rules"
        /\ UNCHANGED <<failures, err>>
     \/ /\ failures < MaxFailures
        /\ failures' = failures + 1
        /\ calls' = Append(calls, Call("GetSnapshots", "", 0, FALSE))
        /\ err' = FetchSnapshotsError(DescribeSnapshotsError)
        /\ pc' = "returned"
        /\ UNCHANGED <<snapshots, ri>>
  /\ UNCHANGED <<single, paging, config, backend, clock, passes, limit, volumes, retentionStartDate,
                 acceptableStartTime, visited, volume, ti, si, counters,
                 evals, passStart, ruleNow, history>>

\* retentionStartDate of a rule, computed at clock value t
RetentionStartDate(t, rule) == t - rule.RetentionPeriodHours * Hour

\* acceptableStartTime of a rule, computed at clock value t
AcceptableStartTime_Later(t, rule) == t + rule.IntervalSeconds * Second
AcceptableStartTime(t, rule) == t - rule.IntervalSeconds * Second

\* the head of the loop over *config: the two dates of the rule, or the
\* return of nil after the last rule
NextRule ==
  /\ pc = "rules"
  /\ IF ri <= Len(config)
     THEN /\ retentionStartDate' = RetentionStartDate(now, config[ri])
          /\ acceptableStartTime' = AcceptableStartTime(now, config[ri])
          /\ ruleNow' = now
          /\ visited' = {}
          /\ pc' = "volumes"
          /\ UNCHANGED err
     ELSE /\ err' = NoError
          /\ pc' = "returned"
          /\ UNCHANGED <<retentionStartDate, acceptableStartTime, visited, ruleNow>>
  /\ UNCHANGED <<single, paging, config, backend, clock, failures, passes, limit, volumes, snapshots,
                 ri, volume, ti, si, counters, calls, evals, passStart, history>>

\* the head of the loop over the volumes map (Go ranges over a map in an
\* unspecified order)
NextVolume ==
  /\ pc = "volumes"
  /\ IF visited # DOMAIN volumes
     THEN /\ \E v \in DOMAIN volumes \ visited :
               /\ volume' = v
               /\ visited' = visited \cup {v}
          /\ ti' = 1
          /\ pc' = "tags"
          /\ UNCHANGED ri
     ELSE /\ ri' = ri + 1
          /\ pc' = "rules"
          /\ UNCHANGED <<volume, visited, ti>>
  /\ UNCHANGED <<single, paging, config, backend, clock, failures, passes, limit, volumes, snapshots,
                 retentionStartDate, acceptableStartTime, si, err, counters,
                 calls, evals, passStart, ruleNow, history>>

\* the test of a tag of the volume against the label of the rule
TagMatches_KeyOnly(tag, rule) == tag.Key = rule.Labels.Key
TagMatches(tag, rule) ==
  /\ tag.Key = rule.Labels.Key
  /\ tag.Value = rule.Labels.Value

\* the head of the loop over volume.Tags and the test of the tag
NextTag ==
  /\ pc = "tags"
  /\ IF ti <= Len(volumes[volume])
     THEN IF TagMatches(volumes[volume][ti], config[ri])
          THEN pc' = "create" /\ UNCHANGED ti
          ELSE pc' = "tags" /\ ti' = ti + 1
     ELSE pc' = "volumes" /\ UNCHANGED ti
  /\ UNCHANGED <<single, paging, config, backend, clock, failures, passes, limit, volumes, snapshots,
                 ri, retentionStartDate, acceptableStartTime, visited, volume,
                 si, err, counters, calls, evals, passStart, ruleNow, history>>

\* the snapshot WatchSnapshots passes to createNewEBSSnapshot
LatestSnapshot_Last(index, v) ==
  IF Len(Lookup(index, v)) > 0 THEN Lookup(index, v)[Len(Lookup(index, v))] ELSE Nil
LatestSnapshot(index, v) ==
  IF Len(Lookup(index, v)) > 0 THEN Lookup(index, v)[1] ELSE Nil

UpToDate_IgnoringState(snapshot, acceptable) ==
  /\ snapshot # Nil
  /\ ~Before(snapshot.StartTime, acceptable)

UpToDate_Strict(snapshot, acceptable) ==
  /\ snapshot # Nil
  /\ After(snapshot.StartTime, acceptable)
  /\ snapshot.State # "error"

\* the test of createNewEBSSnapshot that skips the creation
UpToDate(snapshot, acceptable) ==
  /\ snapshot # Nil
  /\ ~Before(snapshot.StartTime, acceptable)
  /\ snapshot.State # "error"

Eval(latest, outcome) ==
  [rule |-> ri, volume |-> volume, latest |-> latest, now |-> ruleNow,
   acceptable |-> acceptableStartTime, retention |-> retentionStartDate,
   outcome |-> outcome, swept |-> FALSE]

\* where the evaluation goes when the sweep has no (more) snapshot to visit
SweepFrom(i, es) ==
  IF i <= Len(Lookup(snapshots, volume))
  THEN /\ si' = i
       /\ pc' = "sweep"
       /\ evals' = es
       /\ UNCHANGED ti
  ELSE /\ si' = i
       /\ ti' = ti + 1
       /\ pc' = "tags"
       /\ evals' = [es EXCEPT ![Len(es)].swept = TRUE]

\* where the evaluation goes when createNewEBSSnapshot returned an error:
\* the continue of the loop over the tags
CreateFailed_ThenSweep(es) == SweepFrom(1, es)
CreateFailed_Again(es) ==
  /\ evals' = es
  /\ pc' = "create"
  /\ UNCHANGED <<ti, si>>
CreateFailed(es) ==
  /\ evals' = es
  /\ ti' = ti + 1
  /\ pc' = "tags"
  /\ UNCHANGED si

\* where the evaluation goes when createNewEBSSnapshot skipped the creation
\* and returned nil: the sweep over the snapshots of the volume
UpToDateThen_NextTag(es) == CreateFailed(es)
UpToDateThen(es) == SweepFrom(1, es)

\* where the evaluation goes when createNewEBSSnapshot created a snapshot
\* and returned nil: the sweep over the snapshots of the volume
CreatedThen_Again(es) ==
  /\ evals' = es
  /\ pc' = "create"
  /\ UNCHANGED <<ti, si>>
CreatedThen(es) == SweepFrom(1, es)

\* the error counter of a failed CreateSnapshot or RemoveSnapshot call
CountFailure_AsDeleted(tag) ==
  /\ delCounter' = Inc(delCounter, tag)
  /\ UNCHANGED <<crCounter, errCounter>>
CountFailure(tag) ==
  /\ errCounter' = Inc(errCounter, tag)
  /\ UNCHANGED <<crCounter, delCounter>>

\* the call of createNewEBSSnapshot and the branch on its result
CreateNew ==
  /\ pc = "create"
  /\ LET latest == LatestSnapshot(snapshots, volume)
         tag == volumes[volume][ti].Value
     IN
     IF UpToDate(latest, acceptableStartTime)
     THEN /\ UpToDateThen(Append(evals, Eval(latest, "uptodate")))
          /\ UNCHANGED <<backend, failures, err, counters, calls>>
     ELSE \/ \* CreateSnapshot fails
             /\ failures < MaxFailures
             /\ failures' = failures + 1
             /\ calls' = Append(calls, Call("CreateSnapshot", volume, 0, FALSE))
             /\ CountFailure(tag)
             /\ CreateFailed(Append(evals, Eval(latest, "createfailed")))
             /\ UNCHANGED <<backend, err>>
          \/ \* CreateSnapshot succeeds
             /\ ec2Snapshots' = Append(ec2Snapshots,
                                       Snapshot(nextId, volume, now, "pending"))
             /\ nextId' = nextId + 1
             /\ calls' = Append(calls, Call("CreateSnapshot", volume, nextId, TRUE))
             /\ IF latest = Nil
                THEN \* *snapshot.SnapshotId on the nil snapshot
                     /\ pc' = "panicked"
                     /\ evals' = Append(evals, Eval(latest, "panicked"))
                     /\ UNCHANGED <<ti, si, counters>>
                ELSE /\ crCounter' = Inc(crCounter, tag)
                     /\ CreatedThen(Append(evals, Eval(latest, "created")))
                     /\ UNCHANGED <<delCounter, errCounter>>
             /\ UNCHANGED <<ec2Volumes, failures, err>>
  /\ UNCHANGED <<single, paging, config, clock, passes, limit, volumes, snapshots, ri,
                 retentionStartDate, acceptableStartTime, visited, volume,
                 passStart, ruleNow, history>>

\* the test of removeOldEBSSnapshot that skips the removal
WithinRetention_Inverted(snapshot, retention) ==
  snapshot # Nil /\ Before(snapshot.StartTime, retention)
WithinRetention(snapshot, retention) ==
  snapshot # Nil /\ After(snapshot.StartTime, retention)

\* where the sweep goes when removeOldEBSSnapshot returned an error: the
\* error is logged and the sweep goes on to the delay
RemoveFailed_EndsSweep == pc' = "volumes"
RemoveFailed_Again == pc' = "sweep"
RemoveFailed == pc' = "sleep"

\* where the sweep goes when removeOldEBSSnapshot removed the snapshot and
\* returned nil: the delay, and then the next snapshot
RemovedThen_Again == pc' = "sweep"
RemovedThen == pc' = "sleep"

\* the snapshot the sweep passes to removeOldEBSSnapshot in turn i: the
\* i-th of the volume's group in the fetched index
SweepSnapshot_Live(index, v, i) ==
  IF i = 1 /\ Len(ec2Snapshots) > 0
  THEN ec2Snapshots[Len(ec2Snapshots)]
  ELSE Lookup(index, v)[i]
SweepSnapshot(index, v, i) == Lookup(index, v)[i]

\* one call of removeOldEBSSnapshot in the sweep over the volume's snapshots
RemoveOld ==
  /\ pc = "sweep"
  /\ LET snapshot == SweepSnapshot(snapshots, volume, si)
         tag == volumes[volume][ti].Value
     IN
     IF WithinRetention(snapshot, retentionStartDate)
     THEN /\ pc' = "sleep"
          /\ UNCHANGED <<backend, failures, counters, calls>>
     ELSE \/ \* RemoveSnapshot fails
             /\ failures < MaxFailures
             /\ failures' = failures + 1
             /\ calls' = Append(calls,
                   Call("RemoveSnapshot", volume, snapshot.SnapshotId, FALSE))
             /\ CountFailure(tag)
             /\ RemoveFailed
             /\ UNCHANGED backend
          \/ \* RemoveSnapshot succeeds
             /\ ec2Snapshots' =
                  SelectSeq(ec2Snapshots,
                            LAMBDA s : s.SnapshotId # snapshot.SnapshotId)
             /\ calls' = Append(calls,
                   Call("RemoveSnapshot", volume, snapshot.SnapshotId, TRUE))
             /\ delCounter' = Inc(delCounter, tag)
             /\ RemovedThen
             /\ UNCHANGED <<ec2Volumes, nextId, failures, crCounter, errCounter>>
  /\ UNCHANGED <<single, paging, config, clock, passes, limit, locals, err, evals, passStart, ruleNow, history>>

\* time.Sleep after each snapshot of the sweep, and the head of the sweep
Sleep ==
  /\ pc = "sleep"
  /\ SweepFrom(si + 1, evals)
  /\ calls' = Append(calls, Call("Sleep", volume, 0, TRUE))
  /\ UNCHANGED <<single, paging, config, backend, clock, failures, passes, limit, volumes, snapshots,
                 ri, retentionStartDate, acceptableStartTime, visited, volume,
                 err, counters, passStart, ruleNow, history>>

\* main: WatchSnapshots has returned; the loop drops the value it returned
\* (nothing is logged) and waits the poll interval
Wait ==
  /\ pc = "returned"
  /\ pc' = "idle"
  /\ history' = Append(history,
        [now |-> passStart.now, err |-> err, logged |-> FALSE, ok |-> AllOk(calls),
         creates |-> Len(SelectSeq(calls, LAMBDA c : c.op = "CreateSnapshot")),
         removes |-> Len(SelectSeq(calls, LAMBDA c : c.op = "RemoveSnapshot")),
         created |-> Len(SelectSeq(calls, LAMBDA c : c.op = "CreateSnapshot" /\ c.ok)),
         removed |-> Len(SelectSeq(calls, LAMBDA c : c.op = "RemoveSnapshot" /\ c.ok)),
         failed |-> Len(SelectSeq(calls, LAMBDA c :
                      c.op \in {"CreateSnapshot", "RemoveSnapshot"} /\ ~c.ok))])
  /\ UNCHANGED <<single, paging, config, backend, clock, failures, passes, limit, locals, err,
                 counters, calls, evals, passStart, ruleNow>>

Next ==
  \/ Tick
  \/ GetVolumes
  \/ GetSnapshots
  \/ NextRule
  \/ NextVolume
  \/ NextTag
  \/ CreateNew
  \/ RemoveOld
  \/ Sleep
  \/ Wait

Init == Start(1)

\* one call of WatchSnapshots on any rules, inventory and snapshots
Spec == Init /\ [][Next]_vars

\* the loop of main, followed for MaxPasses passes
InitLoop == Start(MaxPasses)

SpecLoop == InitLoop /\ [][Next]_vars

\* the loop of main under fair scheduling: the process, while it can take a
\* step, eventually takes one
SpecLive == InitLoop /\ [][Next]_vars /\ WF_vars(Next)

\* ------------------------------------------- the index of GetSnapshots
\* the snapshots DescribeSnapshots may list: the pool and a snapshot of
\* vol-1 that started together with snapshot 1
ListingPool ==
  { SnapshotPool[i] : i \in 1..Len(SnapshotPool) }
    \cup { Snapshot(6, "vol-1", StartTime - Hour, "pending") }

\* the listings of at most MaxListing snapshots, in any order
Listings ==
  { l \in UNION { [1..n -> ListingPool] : n \in 0..MaxListing } :
      \A i, j \in 1..Len(l) : i # j => l[i] # l[j] }

\* GetSnapshots after the last page: the listing is mapped by volume id
MapSnapshots ==
  /\ pc = "listed"
  /\ snapshots' = MapSnapshotsToVolumes(ec2Snapshots)
  /\ visited' = {}
  /\ pc' = "mapped"
  /\ UNCHANGED <<single, paging, config, backend, clock, failures, passes, limit, volumes, ri,
                 retentionStartDate, acceptableStartTime, volume, ti, si, err,
                 counters, calls, evals, passStart, ruleNow, history>>

\* GetSnapshots: one turn of the loop that sorts each group in place
SortSnapshots ==
  /\ pc = "mapped"
  /\ \E v \in DOMAIN snapshots \ visited :
       \E sorted \in SortSnapshotsByStartTime(snapshots[v]) :
         /\ snapshots' = [snapshots EXCEPT ![v] = sorted]
         /\ visited' = visited \cup {v}
         /\ history' = Append(history,
               [volume |-> v, input |-> snapshots[v], output |-> sorted])
  /\ UNCHANGED <<single, paging, config, backend, clock, failures, passes, limit, pc, volumes, ri,
                 retentionStartDate, acceptableStartTime, volume, ti, si, err,
                 counters, calls, evals, passStart, ruleNow>>

\* GetSnapshots returns the index
ReturnIndex ==
  /\ pc = "mapped"
  /\ visited = DOMAIN snapshots
  /\ pc' = "indexed"
  /\ UNCHANGED <<single, paging, config, backend, clock, failures, passes, limit, locals, err,
                 counters, calls, evals, passStart, ruleNow, history>>

\* the same listing is handed to MapMostRecentSnapshotToVolumes
MapMostRecent ==
  /\ pc = "indexed"
  /\ lastSnapshots' = MapMostRecentSnapshotToVolumes(ec2Snapshots)
  /\ pc' = "both"
  /\ UNCHANGED <<retentionPeriod, paging, config, backend, clock, failures,
                 passes, limit, locals, err, counters, calls, evals,
                 passStart, ruleNow, history>>

NextClients ==
  \/ MapSnapshots
  \/ SortSnapshots
  \/ ReturnIndex
  \/ MapMostRecent

InitClients ==
  /\ config = <<>>
  /\ ec2Volumes = [ v \in {} |-> <<>> ]
  /\ ec2Snapshots \in Listings
  /\ nextId = Cardinality(ListingPool) + 1
  /\ now = StartTime
  /\ ticks = 0
  /\ failures = 0
  /\ passes = 0
  /\ limit = 0
  /\ pc = "listed"
  /\ volumes = [ v \in {} |-> <<>> ]
  /\ snapshots = EmptyIndex
  /\ ri = 0
  /\ retentionStartDate = 0
  /\ acceptableStartTime = 0
  /\ visited = {}
  /\ volume = ""
  /\ ti = 0
  /\ si = 0
  /\ err = NoError
  /\ crCounter = ZeroCounter
  /\ delCounter = ZeroCounter
  /\ errCounter = ZeroCounter
  /\ calls = <<>>
  /\ evals = <<>>
  /\ passStart = [now |-> StartTime, listing |-> <<>>,
                  counters |-> <<ZeroCounter, ZeroCounter, ZeroCounter>>]
  /\ ruleNow = 0
  /\ history = <<>>
  /\ pageSize = resultsPerRequest
  /\ token = NoToken
  /\ fetched = <<>>
  /\ requests = <<>>
  /\ lastSnapshots = NoSnapshots
  /\ retentionPeriod = 0

\* MapSnapshotsToVolumes and SortSnapshotsByStartTime on any listing
SpecClients == InitClients /\ [][NextClients]_vars

\* --------------------------------------- the paging of the two listings
\* the volumes of the backend, in the order in which DescribeVolumes lists
\* them
VolumeOrder == <<"vol-1", "vol-2">>

Volume(id, tags) == [VolumeId |-> id, Tags |-> tags]

VolumeListing ==
  [ i \in 1..Len(VolumeOrder) |-> Volume(VolumeOrder[i], ec2Volumes[VolumeOrder[i]]) ]

\* the backend's answer to a request for page k of a listing (the first
\* request, which carries no token, asks for page 1): pageSize items, and
\* the number of the next page as the token unless this page is the last
ServePage(list, k) ==
  LET last == IF k * pageSize < Len(list) THEN k * pageSize ELSE Len(list)
  IN  [Items |-> SubSeq(list, (k - 1) * pageSize + 1, last),
       NextToken |-> IF k * pageSize < Len(list) THEN k + 1 ELSE NoToken]

\* the number of pages in which the backend serves a listing
NumPages(list) ==
  IF Len(list) = 0 THEN 1 ELSE (Len(list) + pageSize - 1) \div pageSize

\* clients.mapVolumesToIds: a later volume replaces an earlier one of the
\* same id
mapVolumesToIds(vols) ==
  [ id \in { vols[i].VolumeId : i \in 1..Len(vols) } |->
      LET i == CHOOSE i \in 1..Len(vols) :
                 /\ vols[i].VolumeId = id
                 /\ \A j \in (i + 1)..Len(vols) : vols[j].VolumeId # id
      IN  vols[i].Tags ]

\* the token the loop of GetVolumes tests and sends after a request of the
\* loop was answered with v: the answer is bound to v, a variable of the
\* loop body, and vols keeps the first answer
VolumesLoopToken(v) == token

\* the token the loop of GetSnapshots tests and sends after a request of
\* the loop was answered with snaps: the answer is assigned to snaps
SnapshotsLoopToken_Kept(snaps) == token
SnapshotsLoopToken(snaps) == snaps.NextToken

\* GetVolumes: the first DescribeVolumes request
DescribeVolumes ==
  /\ pc = "describeVolumes"
  /\ \/ /\ LET vols == ServePage(VolumeListing, 1)
           IN  /\ fetched' = vols.Items
               /\ token' = vols.NextToken
        /\ requests' = <<1>>
        /\ pc' = "moreVolumes"
        /\ UNCHANGED <<failures, err>>
     \/ /\ failures < MaxFailures
        /\ failures' = failures + 1
        /\ err' = DescribeVolumesError
        /\ pc' = "volumesFailed"
        /\ UNCHANGED <<token, fetched, requests>>
  /\ UNCHANGED <<single, pageSize, config, backend, clock, passes, limit, locals,
                 counters, calls, evals, passStart, ruleNow, history>>

\* GetVolumes: one turn of the loop over the next pages (the model follows
\* the loop for MaxRequests requests)
MoreVolumes ==
  /\ pc = "moreVolumes"
  /\ token # NoToken
  /\ Len(requests) < MaxRequests
  /\ \/ /\ LET v == ServePage(VolumeListing, token)
           IN  /\ fetched' = fetched \o v.Items
               /\ token' = VolumesLoopToken(v)
        /\ requests' = Append(requests, token)
        /\ UNCHANGED <<failures, err, pc>>
     \/ /\ failures < MaxFailures
        /\ failures' = failures + 1
        /\ err' = DescribeVolumesError
        /\ pc' = "volumesFailed"
        /\ UNCHANGED <<token, fetched, requests>>
  /\ UNCHANGED <<single, pageSize, config, backend, clock, passes, limit, locals,
                 counters, calls, evals, passStart, ruleNow, history>>

\* GetVolumes: after the loop the volumes are mapped by id and returned
ReturnVolumes ==
  /\ pc = "moreVolumes"
  /\ token = NoToken
  /\ volumes' = mapVolumesToIds(fetched)
  /\ pc' = "volumesReturned"
  /\ UNCHANGED <<single, paging, config, backend, clock, failures, passes, limit,
                 snapshots, ri, retentionStartDate, acceptableStartTime,
                 visited, volume, ti, si, err, counters, calls, evals,
                 passStart, ruleNow, history>>

\* GetSnapshots: the first DescribeSnapshots request
DescribeSnapshots ==
  /\ pc = "describeSnapshots"
  /\ \/ /\ LET snaps == ServePage(ec2Snapshots, 1)
           IN  /\ fetched' = snaps.Items
               /\ token' = snaps.NextToken
        /\ requests' = <<1>>
        /\ pc' = "moreSnapshots"
        /\ UNCHANGED <<failures, err>>
     \/ /\ failures < MaxFailures
        /\ failures' = failures + 1
        /\ err' = DescribeSnapshotsError
        /\ pc' = "snapshotsFailed"
        /\ UNCHANGED <<token, fetched, requests>>
  /\ UNCHANGED <<single, pageSize, config, backend, clock, passes, limit, locals,
                 counters, calls, evals, passStart, ruleNow, history>>

\* GetSnapshots: one turn of the loop over the next pages
MoreSnapshots ==
  /\ pc = "moreSnapshots"
  /\ token # NoToken
  /\ Len(requests) < MaxRequests
  /\ \/ /\ LET snaps == ServePage(ec2Snapshots, token)
           IN  /\ fetched' = fetched \o snaps.Items
               /\ token' = SnapshotsLoopToken(snaps)
        /\ requests' = Append(requests, token)
        /\ UNCHANGED <<failures, err, pc>>
     \/ /\ failures < MaxFailures
        /\ failures' = failures + 1
        /\ err' = DescribeSnapshotsError
        /\ pc' = "snapshotsFailed"
        /\ UNCHANGED <<token, fetched, requests>>
  /\ UNCHANGED <<single, pageSize, config, backend, clock, passes, limit, locals,
                 counters, calls, evals, passStart, ruleNow, history>>

\* GetSnapshots: after the loop the snapshots are mapped by volume id, each
\* group is sorted, and the index is returned
ReturnSnapshots ==
  /\ pc = "moreSnapshots"
  /\ token = NoToken
  /\ \E index \in SnapshotIndices(fetched) : snapshots' = index
  /\ pc' = "snapshotsReturned"
  /\ UNCHANGED <<single, paging, config, backend, clock, failures, passes, limit,
                 volumes, ri, retentionStartDate, acceptableStartTime,
                 visited, volume, ti, si, err, counters, calls, evals,
                 passStart, ruleNow, history>>

NextPages ==
  \/ DescribeVolumes
  \/ MoreVolumes
  \/ ReturnVolumes
  \/ DescribeSnapshots
  \/ MoreSnapshots
  \/ ReturnSnapshots

\* a call of GetVolumes or of GetSnapshots on a backend that serves its
\* listings in pages of 1..MaxPageSize items
InitPages ==
  /\ config = <<>>
  /\ ec2Volumes \in Inventories
  /\ ec2Snapshots \in SubSeqs(SnapshotPool, MaxListing)
  /\ nextId = Len(SnapshotPool) + 1
  /\ now = StartTime
  /\ ticks = 0
  /\ failures = 0
  /\ passes = 0
  /\ limit = 0
  /\ pc \in {"describeVolumes", "describeSnapshots"}
  /\ volumes = [ v \in {} |-> <<>> ]
  /\ snapshots = EmptyIndex
  /\ ri = 0
  /\ retentionStartDate = 0
  /\ acceptableStartTime = 0
  /\ visited = {}
  /\ volume = ""
  /\ ti = 0
  /\ si = 0
  /\ err = NoError
  /\ crCounter = ZeroCounter
  /\ delCounter = ZeroCounter
  /\ errCounter = ZeroCounter
  /\ calls = <<>>
  /\ evals = <<>>
  /\ passStart = [now |-> StartTime, listing |-> <<>>,
                  counters |-> <<ZeroCounter, ZeroCounter, ZeroCounter>>]
  /\ ruleNow = 0
  /\ history = <<>>
  /\ pageSize \in 1..MaxPageSize
  /\ token = NoToken
  /\ fetched = <<>>
  /\ requests = <<>>
  /\ lastSnapshots = NoSnapshots
  /\ retentionPeriod = 0

\* the scheduler runs the one goroutine that makes the call: a request that
\* can be made is made
SpecPages == InitPages /\ [][NextPages]_vars /\ WF_vars(NextPages)

\* ------------------------------------- the single-file program (main.go)
\* the default of the option poll-interval-seconds
pollIntervalSeconds == 1800

\* the values of the option old-snapshots-retention-period-hours followed
RetentionOptions == {0, 1}

\* CounterVec.WithLabelValues(labels).Inc(): the child counter of the labels
\* is created at its first use
IncVec(counter, labels) ==
  [ l \in DOMAIN counter \cup {labels} |->
      IF l # labels THEN counter[l]
      ELSE IF l \in DOMAIN counter THEN counter[l] + 1 ELSE 1 ]

NoChildren == [ l \in {} |-> 0 ]

\* snaps[*vol.VolumeId] on a Go map: a missing key, or any key of a nil map,
\* is the nil snapshot
LastSnapshot(index, v) == IF v \in DOMAIN index THEN index[v] ELSE Nil

\* WatchSnapshots: the call of getVolumes at the head of the loop; an error
\* is logged and the iteration goes on with a nil map
getVolumes ==
  /\ pc = "getVolumes"
  /\ passes < limit
  /\ passes' = passes + 1
  /\ passStart' = [now |-> now, listing |-> ec2Snapshots, counters |-> counters]
  /\ \/ /\ volumes' = ec2Volumes
        /\ calls' = << Call("getVolumes", "", 0, TRUE) >>
        /\ UNCHANGED failures
     \/ /\ failures < MaxFailures
        /\ failures' = failures + 1
        /\ volumes' = [ v \in {} |-> <<>> ]
        /\ calls' = << Call("getVolumes", "", 0, FALSE) >>
  /\ pc' = "getSnapshots"
  /\ UNCHANGED <<single, paging, config, backend, clock, limit, snapshots, ri,
                 retentionStartDate, acceptableStartTime, visited, volume,
                 ti, si, err, counters, evals, ruleNow, history>>

\* WatchSnapshots: the call of getSnapshots; an error is logged and the
\* iteration goes on with a nil map; then retentionStartDate is computed
getSnapshots ==
  /\ pc = "getSnapshots"
  /\ \/ /\ lastSnapshots' = MapMostRecentSnapshotToVolumes(ec2Snapshots)
        /\ calls' = Append(calls, Call("getSnapshots", "", 0, TRUE))
        /\ UNCHANGED failures
     \/ /\ failures < MaxFailures
        /\ failures' = failures + 1
        /\ lastSnapshots' = NoSnapshots
        /\ calls' = Append(calls, Call("getSnapshots", "", 0, FALSE))
  /\ retentionStartDate' = now - retentionPeriod * Hour
  /\ ri' = 1
  /\ pc' = "configs"
  /\ UNCHANGED <<retentionPeriod, paging, config, backend, clock, passes,
                 limit, volumes, snapshots, acceptableStartTime, visited,
                 volume, ti, si, err, counters, evals, passStart, ruleNow,
                 history>>

\* the head of the loop over *snapshotConfigs: acceptableStartTime of the
\* rule, or the wait after the last rule
RangeConfigs ==
  /\ pc = "configs"
  /\ IF ri <= Len(config)
     THEN /\ acceptableStartTime' = AcceptableStartTime(now, config[ri])
          /\ visited' = {}
          /\ pc' = "vols"
     ELSE /\ pc' = "wait"
          /\ UNCHANGED <<acceptableStartTime, visited>>
  /\ UNCHANGED <<single, paging, config, backend, clock, failures, passes,
                 limit, volumes, snapshots, ri, retentionStartDate, volume,
                 ti, si, err, counters, calls, evals, passStart, ruleNow,
                 history>>

\* the head of the loop over the vols map
RangeVolumes ==
  /\ pc = "vols"
  /\ IF visited # DOMAIN volumes
     THEN /\ \E v \in DOMAIN volumes \ visited :
               /\ volume' = v
               /\ visited' = visited \cup {v}
          /\ ti' = 1
          /\ pc' = "volTags"
          /\ UNCHANGED ri
     ELSE /\ ri' = ri + 1
          /\ pc' = "configs"
          /\ UNCHANGED <<volume, visited, ti>>
  /\ UNCHANGED <<single, paging, config, backend, clock, failures, passes,
                 limit, volumes, snapshots, retentionStartDate,
                 acceptableStartTime, si, err, counters, calls, evals,
                 passStart, ruleNow, history>>

\* the head of the loop over vol.Tags and the test of the tag
RangeTags ==
  /\ pc = "volTags"
  /\ IF ti <= Len(volumes[volume])
     THEN IF /\ volumes[volume][ti].Key = config[ri].Labels.Key
             /\ volumes[volume][ti].Value = config[ri].Labels.Value
          THEN pc' = "check" /\ UNCHANGED ti
          ELSE pc' = "volTags" /\ ti' = ti + 1
     ELSE pc' = "vols" /\ UNCHANGED ti
  /\ UNCHANGED <<single, paging, config, backend, clock, failures, passes,
                 limit, volumes, snapshots, ri, retentionStartDate,
                 acceptableStartTime, visited, volume, si, err, counters,
                 calls, evals, passStart, ruleNow, history>>

\* CheckSnapshot: it returns nothing, and WatchSnapshots goes on to
\* RemoveOldSnapshot whatever it did
CheckSnapshot ==
  /\ pc = "check"
  /\ LET lastSnapshot == LastSnapshot(lastSnapshots, volume)
     IN
     IF UpToDate(lastSnapshot, acceptableStartTime)
     THEN UNCHANGED <<backend, failures, counters, calls>>
     ELSE \/ \* makeSnapshot fails
             /\ failures < MaxFailures
             /\ failures' = failures + 1
             /\ calls' = Append(calls, Call("makeSnapshot", volume, 0, FALSE))
             /\ errCounter' = errCounter + 1
             /\ UNCHANGED <<backend, crCounter, delCounter>>
          \/ \* makeSnapshot succeeds
             /\ ec2Snapshots' = Append(ec2Snapshots,
                                       Snapshot(nextId, volume, now, "pending"))
             /\ nextId' = nextId + 1
             /\ calls' = Append(calls, Call("makeSnapshot", volume, nextId, TRUE))
             /\ crCounter' = IncVec(crCounter, volume)
             /\ UNCHANGED <<ec2Volumes, failures, delCounter, errCounter>>
  /\ pc' = "remove"
  /\ UNCHANGED <<single, paging, config, clock, passes, limit, locals, err,
                 evals, passStart, ruleNow, history>>

\* the test of RemoveOldSnapshot that leads to deleteSnapshot
PastRetention(lastSnapshot, retention) ==
  lastSnapshot # Nil /\ Before(lastSnapshot.StartTime, retention)

\* RemoveOldSnapshot: after deleteSnapshot it returns; otherwise it logs the
\* snapshot id and increments old_snapshots_removed
RemoveOldSnapshot ==
  /\ pc = "remove"
  /\ LET lastSnapshot == LastSnapshot(lastSnapshots, volume)
     IN
     IF PastRetention(lastSnapshot, retentionStartDate)
     THEN /\ \/ \* deleteSnapshot fails; the error is dropped
                /\ failures < MaxFailures
                /\ failures' = failures + 1
                /\ calls' = Append(calls,
                      Call("deleteSnapshot", volume, lastSnapshot.SnapshotId, FALSE))
                /\ UNCHANGED backend
             \/ \* deleteSnapshot succeeds
                /\ ec2Snapshots' =
                     SelectSeq(ec2Snapshots,
                               LAMBDA s : s.SnapshotId # lastSnapshot.SnapshotId)
                /\ calls' = Append(calls,
                      Call("deleteSnapshot", volume, lastSnapshot.SnapshotId, TRUE))
                /\ UNCHANGED <<ec2Volumes, nextId, failures>>
          /\ ti' = ti + 1
          /\ pc' = "volTags"
          /\ UNCHANGED counters
     ELSE IF lastSnapshot = Nil
     THEN \* *lastSnapshot.SnapshotId on the nil snapshot
          /\ pc' = "panicked"
          /\ UNCHANGED <<backend, failures, counters, calls, ti>>
     ELSE /\ delCounter' = IncVec(delCounter, <<volume, lastSnapshot.SnapshotId>>)
          /\ ti' = ti + 1
          /\ pc' = "volTags"
          /\ UNCHANGED <<backend, failures, crCounter, errCounter, calls>>
  /\ UNCHANGED <<single, paging, config, clock, passes, limit, volumes,
                 snapshots, ri, retentionStartDate, acceptableStartTime,
                 visited, volume, si, err, evals, passStart, ruleNow,
                 history>>

\* WatchSnapshots: the wait for the next interval at the end of the loop body
WaitInterval ==
  /\ pc = "wait"
  /\ now' = now + pollIntervalSeconds * Second
  /\ pc' = "getVolumes"
  /\ UNCHANGED <<single, paging, config, backend, ticks, failures, passes,
                 limit, locals, err, counters, calls, evals, passStart,
                 ruleNow, history>>

NextMain ==
  \/ getVolumes
  \/ getSnapshots
  \/ RangeConfigs
  \/ RangeVolumes
  \/ RangeTags
  \/ CheckSnapshot
  \/ RemoveOldSnapshot
  \/ WaitInterval

\* the single-file program before the first iteration of its loop, followed
\* for MaxPasses iterations (its rules have a label and an interval; the
\* retention period is the option, and that of a rule is not read)
InitMain ==
  /\ config \in Configs
  /\ ec2Volumes \in Inventories
  /\ ec2Snapshots \in SubSeqs(SnapshotPool, MaxSnapshots)
  /\ nextId = Len(SnapshotPool) + 1
  /\ now = StartTime
  /\ ticks = 0
  /\ failures = 0
  /\ passes = 0
  /\ limit = MaxPasses
  /\ pc = "getVolumes"
  /\ volumes = [ v \in {} |-> <<>> ]
  /\ snapshots = EmptyIndex
  /\ ri = 0
  /\ retentionStartDate = 0
  /\ acceptableStartTime = 0
  /\ visited = {}
  /\ volume = ""
  /\ ti = 0
  /\ si = 0
  /\ err = NoError
  /\ crCounter = NoChildren
  /\ delCounter = NoChildren
  /\ errCounter = 0
  /\ calls = <<>>
  /\ evals = <<>>
  /\ passStart = [now |-> StartTime, listing |-> <<>>,
                  counters |-> <<NoChildren, NoChildren, 0>>]
  /\ ruleNow = 0
  /\ history = <<>>
  /\ pageSize = resultsPerRequest
  /\ token = NoToken
  /\ fetched = <<>>
  /\ requests = <<>>
  /\ lastSnapshots = NoSnapshots
  /\ retentionPeriod \in RetentionOptions

SpecMain == InitMain /\ [][NextMain]_vars

TypeOK ==
  /\ pc \in {"idle", "snapshots", "rules", "volumes", "tags", "create",
             "sweep", "sleep", "returned", "panicked"}
  /\ failures \in 0..MaxFailures
  /\ passes \in 0..MaxPasses

\* ------------------------------------------------------------ properties
\* the calls of the current pass that satisfy P
CallsWhere(P(_)) == { i \in 1..Len(calls) : P(calls[i]) }

IsCreate(c) == c.op = "CreateSnapshot"
IsRemove(c) == c.op = "RemoveSnapshot"

\* the CreateSnapshot calls made for volume v while rule number r was evaluated
CreatesIn(r, v) ==
  CallsWhere(LAMBDA c : IsCreate(c) /\ c.rule = r /\ c.volume = v)

\* the RemoveSnapshot calls made for volume v while rule number r was evaluated
RemovesIn(r, v) ==
  CallsWhere(LAMBDA c : IsRemove(c) /\ c.rule = r /\ c.volume = v)

\* the evaluations of volume v under rule number r that have begun
EvalsOf(r, v) == { k \in 1..Len(evals) : evals[k].rule = r /\ evals[k].volume = v }

\* rule number r selects volume v: one of its tags has the key and the
\* value of the rule's label
Matches(r, v) ==
  \E t \in 1..Len(volumes[v]) :
    /\ volumes[v][t].Key = config[r].Labels.Key
    /\ volumes[v][t].Value = config[r].Labels.Value

\* the snapshots of volume v in the fetched index
Group(v) == { Lookup(snapshots, v)[i] : i \in 1..Len(Lookup(snapshots, v)) }

\* now - interval and now - retentionPeriod of an evaluation
FreshnessCutoff(e) == e.now - config[e.rule].IntervalSeconds * Second
RetentionCutoff(e) == e.now - config[e.rule].RetentionPeriodHours * Hour

\* C1 (as stated): when a CreateSnapshot call for a volume fails, no
\* RemoveSnapshot call is made for a snapshot of that volume in the same pass.
C1_SamePass ==
  \A i, j \in 1..Len(calls) :
    (IsCreate(calls[i]) /\ ~calls[i].ok /\ IsRemove(calls[j]))
      => calls[j].volume # calls[i].volume

\* C1 (amended): when a CreateSnapshot call for a volume fails, no
\* RemoveSnapshot call is made for a snapshot of that volume in the same
\* evaluation, that is under the same rule of the same pass.
C1_SameEvaluation ==
  \A i, j \in 1..Len(calls) :
    (IsCreate(calls[i]) /\ ~calls[i].ok /\ IsRemove(calls[j])
       /\ calls[j].rule = calls[i].rule)
      => calls[j].volume # calls[i].volume

\* a pass has returned in which a create failed for a volume that has a
\* snapshot older than the retention cutoff of the rule
C1_Witness ==
  /\ pc = "returned"
  /\ \E k \in 1..Len(evals) :
       /\ evals[k].outcome = "createfailed"
       /\ \E s \in Group(evals[k].volume) :
            Before(s.StartTime, RetentionCutoff(evals[k]))

\* C2: when GetVolumes fails, WatchSnapshots returns the error "error while
\* fetching volumes: <cause>", makes no other client call in the pass and
\* changes no counter.
C2_VolumesError ==
  (Len(calls) >= 1 /\ calls[1].op = "GetVolumes" /\ ~calls[1].ok)
    => /\ pc \in {"returned", "idle"}
       /\ err # NoError
       /\ err = "error while fetching volumes: " \o DescribeVolumesError
       /\ Len(calls) = 1
       /\ counters = passStart.counters

C2_Witness ==
  /\ pc = "returned"
  /\ calls = << [op |-> "GetVolumes", rule |-> 0, volume |-> "",
                 snapshot |-> 0, ok |-> FALSE] >>
  /\ config # <<>>

\* C3: when GetVolumes succeeds and GetSnapshots fails, WatchSnapshots
\* returns the error "error while fetching snapshots: <cause>" and makes no
\* CreateSnapshot or RemoveSnapshot call in the pass.
C3_SnapshotsError ==
  (Len(calls) >= 2 /\ calls[1].ok /\ calls[2].op = "GetSnapshots" /\ ~calls[2].ok)
    => /\ pc \in {"returned", "idle"}
       /\ err # NoError
       /\ err = "error while fetching snapshots: " \o DescribeSnapshotsError
       /\ CallsWhere(IsCreate) = {}
       /\ CallsWhere(IsRemove) = {}

C3_Witness ==
  /\ pc = "returned"
  /\ Len(calls) = 2
  /\ calls[1].op = "GetVolumes" /\ calls[1].ok
  /\ calls[2].op = "GetSnapshots" /\ ~calls[2].ok
  /\ config # <<>>
  /\ ec2Snapshots # <<>>

\* the volume of evaluation e has no snapshot, or its latest snapshot
\* started before now - interval, or its latest snapshot is in state "error"
NeedsSnapshot(e) ==
  \/ Group(e.volume) = {}
  \/ \A s \in Group(e.volume) : Before(s.StartTime, FreshnessCutoff(e))
  \/ \E s \in Group(e.volume) :
       /\ \A t \in Group(e.volume) : t.StartTime <= s.StartTime
       /\ s.State = "error"

\* C4: in every evaluation of a rule on a matching volume that has no
\* snapshot, or whose latest snapshot started before now - interval or is in
\* state "error", exactly one CreateSnapshot call is made for the volume;
\* and a pass that returns nil has evaluated every rule once on every
\* volume it matches.
C4_OneCreate ==
  /\ \A k \in 1..Len(evals) :
       NeedsSnapshot(evals[k])
         => /\ Cardinality(CreatesIn(evals[k].rule, evals[k].volume)) = 1
            /\ Cardinality(EvalsOf(evals[k].rule, evals[k].volume)) = 1
  /\ (pc = "returned" /\ Len(calls) >= 2 /\ calls[1].ok /\ calls[2].ok)
       => \A r \in 1..Len(config) : \A v \in DOMAIN volumes :
            Matches(r, v) => Cardinality(EvalsOf(r, v)) = 1

\* a pass has returned that evaluated a volume whose latest snapshot is
\* recent but in state "error", and one whose latest snapshot is too old
C4_Witness ==
  /\ pc = "returned"
  /\ \E k \in 1..Len(evals) :
       /\ evals[k].latest.State = "error"
       /\ ~Before(evals[k].latest.StartTime, FreshnessCutoff(evals[k]))
  /\ \E k \in 1..Len(evals) :
       /\ evals[k].latest # Nil
       /\ Before(evals[k].latest.StartTime, FreshnessCutoff(evals[k]))

\* C5 (as stated): in every evaluation of a rule on a matching volume that
\* has some snapshot started at or after now - interval whose state is not
\* "error", no CreateSnapshot call is made for the volume.
C5_AnySnapshot ==
  \A k \in 1..Len(evals) :
    (\E s \in Group(evals[k].volume) :
       ~Before(s.StartTime, FreshnessCutoff(evals[k])) /\ s.State # "error")
      => CreatesIn(evals[k].rule, evals[k].volume) = {}

\* C5 (amended): in every evaluation of a rule on a matching volume whose
\* latest snapshot (the first of the volume's group in the fetched index)
\* started at or after now - interval and is not in state "error", no
\* CreateSnapshot call is made for the volume.
C5_LatestSnapshot ==
  \A k \in 1..Len(evals) :
    LET group == Lookup(snapshots, evals[k].volume)
    IN  (/\ Len(group) > 0
         /\ ~Before(group[1].StartTime, FreshnessCutoff(evals[k]))
         /\ group[1].State # "error")
          => CreatesIn(evals[k].rule, evals[k].volume) = {}

\* a pass has returned that evaluated a volume whose latest snapshot started
\* exactly at now - interval and is not in error, next to an older snapshot
C5_Witness ==
  /\ pc = "returned"
  /\ \E k \in 1..Len(evals) :
       /\ evals[k].latest # Nil
       /\ evals[k].latest.State # "error"
       /\ evals[k].latest.StartTime = FreshnessCutoff(evals[k])
       /\ Len(Lookup(snapshots, evals[k].volume)) > 1

\* the snapshot of volume v with id n in the fetched index
SnapshotOf(v, n) == CHOOSE s \in Group(v) : s.SnapshotId = n

\* the ids of the snapshots for which evaluation e called RemoveSnapshot
RemovedIn(e) == { calls[i].snapshot : i \in RemovesIn(e.rule, e.volume) }

\* C6: no RemoveSnapshot call is made for a snapshot that started at or
\* after now - retentionPeriod of the rule being evaluated.
C6_KeptWithinRetention ==
  \A k \in 1..Len(evals) :
    \A n \in RemovedIn(evals[k]) :
      Before(SnapshotOf(evals[k].volume, n).StartTime, RetentionCutoff(evals[k]))

\* C7: in every evaluation whose create step did not fail and whose sweep
\* is over, RemoveSnapshot was called for every snapshot of the volume that
\* started before now - retentionPeriod and for no other snapshot.
C7_ExactlyTheOld ==
  \A k \in 1..Len(evals) :
    (evals[k].swept /\ evals[k].outcome # "createfailed")
      => RemovedIn(evals[k]) =
           { s.SnapshotId : s \in { t \in Group(evals[k].volume) :
               Before(t.StartTime, RetentionCutoff(evals[k])) } }

\* evaluation number k of the pass is over: the pass went on to another
\* evaluation or returned
EvalOver(k) == k < Len(evals) \/ evals[k].swept \/ pc \in {"returned", "idle"}

\* C8: in an evaluation that is over, a RemoveSnapshot call that failed is
\* followed by a RemoveSnapshot call for every later snapshot of the volume
\* that started before now - retentionPeriod.
C8_SweepGoesOn ==
  \A k \in 1..Len(evals) :
    EvalOver(k) =>
      LET group == Lookup(snapshots, evals[k].volume)
      IN  \A p, q \in 1..Len(group) :
            (/\ p < q
             /\ \E i \in RemovesIn(evals[k].rule, evals[k].volume) :
                  calls[i].snapshot = group[p].SnapshotId /\ ~calls[i].ok
             /\ Before(group[q].StartTime, RetentionCutoff(evals[k])))
              => \E i, j \in RemovesIn(evals[k].rule, evals[k].volume) :
                   /\ i < j
                   /\ calls[i].snapshot = group[p].SnapshotId /\ ~calls[i].ok
                   /\ calls[j].snapshot = group[q].SnapshotId

\* a pass has returned in which the first RemoveSnapshot call of a sweep
\* failed and a later snapshot of the volume was older than the cutoff
C8_Witness ==
  /\ pc = "returned"
  /\ \E k \in 1..Len(evals) :
       LET group == Lookup(snapshots, evals[k].volume)
       IN  /\ evals[k].swept
           /\ Len(group) >= 2
           /\ Before(group[2].StartTime, RetentionCutoff(evals[k]))
           /\ \E i \in RemovesIn(evals[k].rule, evals[k].volume) :
                calls[i].snapshot = group[1].SnapshotId /\ ~calls[i].ok

\* C9: a pass whose two fetches succeeded ends by returning nil, with every
\* rule evaluated on every volume it matches, whatever create or delete
\* calls failed.
C9_PassCompletes ==
  (/\ pc \in {"returned", "panicked"}
   /\ Len(calls) >= 2 /\ calls[1].ok /\ calls[2].ok)
    => /\ pc = "returned"
       /\ err = NoError
       /\ \A r \in 1..Len(config) : \A v \in DOMAIN volumes :
            Matches(r, v) => EvalsOf(r, v) # {}

\* the second pass of the loop runs or has run, at the clock value of a
\* first pass that returned nil and in which every client call succeeded
SecondPassAtOnce ==
  /\ passes = 2
  /\ Len(history) >= 1
  /\ history[1].ok
  /\ history[1].err = NoError
  /\ now = history[1].now

\* C10 (as stated): for any rules, a second pass that starts at the clock
\* value of a first pass in which every client call succeeded makes no
\* CreateSnapshot and no RemoveSnapshot call.
C10_SecondPassIdle ==
  SecondPassAtOnce
    => /\ CallsWhere(IsCreate) = {}
       /\ CallsWhere(IsRemove) = {}

\* C10 (amended): the same, for rules whose retention period is longer
\* than their interval.
C10_SecondPassIdleWhenRetained ==
  (/\ SecondPassAtOnce
   /\ \A r \in 1..Len(config) :
        config[r].RetentionPeriodHours * Hour > config[r].IntervalSeconds * Second)
    => /\ CallsWhere(IsCreate) = {}
       /\ CallsWhere(IsRemove) = {}

\* the second pass has returned after evaluating a volume, at the clock
\* value of a first pass that created and removed snapshots
C10_Witness ==
  /\ SecondPassAtOnce
  /\ pc = "returned"
  /\ \A r \in 1..Len(config) :
       config[r].RetentionPeriodHours * Hour > config[r].IntervalSeconds * Second
  /\ history[1].creates > 0
  /\ history[1].removes > 0
  /\ \E k \in 1..Len(evals) : evals[k].swept

\* the number of positions of s that hold x
Count(s, x) == Cardinality({ i \in 1..Len(s) : s[i] = x })

\* t holds the elements of s, each as many times as s does
IsPermutation(s, t) ==
  /\ Len(s) = Len(t)
  /\ \A i \in 1..Len(s) : Count(t, s[i]) = Count(s, s[i])

\* C11: after SortSnapshotsByStartTime the list is in descending order of
\* start time (for all positions i < j the start time at i is not before the
\* start time at j) and is a permutation of the list it was called on.
C11_SortedDescending ==
  \A h \in 1..Len(history) :
    /\ \A i, j \in 1..Len(history[h].output) :
         i < j => history[h].output[i].StartTime >= history[h].output[j].StartTime
    /\ IsPermutation(history[h].input, history[h].output)

\* a list of three snapshots, two of them started together, was sorted into
\* another order
C11_Witness ==
  /\ pc = "indexed"
  /\ \E h \in 1..Len(history) :
       /\ Len(history[h].input) = 3
       /\ history[h].output # history[h].input
       /\ \E i, j \in 1..3 :
            /\ i < j
            /\ history[h].input[i].StartTime = history[h].input[j].StartTime
       /\ \E i, j \in 1..3 :
            history[h].input[i].StartTime < history[h].input[j].StartTime

\* the positions <<v, j>> of the index
IndexPositions ==
  UNION { { <<v, j>> : j \in 1..Len(snapshots[v]) } : v \in DOMAIN snapshots }

RECURSIVE SumOfLens(_, _)
SumOfLens(index, keys) ==
  IF keys = {} THEN 0
  ELSE LET v == CHOOSE k \in keys : TRUE
       IN  Len(index[v]) + SumOfLens(index, keys \ {v})

\* C12: MapSnapshotsToVolumes partitions the list by volume id: each
\* snapshot of the list is at exactly one position of the index, in the
\* group keyed by its volume id; no group holds a snapshot of another volume;
\* the group sizes sum to the length of the list; no key has an empty group.
C12_Partition ==
  pc \in {"mapped", "indexed"} =>
    /\ \A i \in 1..Len(ec2Snapshots) :
         /\ Cardinality({ p \in IndexPositions :
                            snapshots[p[1]][p[2]] = ec2Snapshots[i] }) = 1
         /\ ec2Snapshots[i].VolumeId \in DOMAIN snapshots
         /\ Count(snapshots[ec2Snapshots[i].VolumeId], ec2Snapshots[i]) = 1
    /\ \A p \in IndexPositions : snapshots[p[1]][p[2]].VolumeId = p[1]
    /\ SumOfLens(snapshots, DOMAIN snapshots) = Len(ec2Snapshots)
    /\ \A v \in DOMAIN snapshots : Len(snapshots[v]) > 0

\* a listing that alternates between two volumes was mapped
C12_Witness ==
  /\ pc = "mapped"
  /\ visited = {}
  /\ Len(ec2Snapshots) = 3
  /\ ec2Snapshots[1].VolumeId = ec2Snapshots[3].VolumeId
  /\ ec2Snapshots[1].VolumeId # ec2Snapshots[2].VolumeId

\* the snapshots of volume v that the backend held when the pass fetched them
Listed(v) ==
  { passStart.listing[i] : i \in { j \in 1..Len(passStart.listing) :
                                     passStart.listing[j].VolumeId = v } }

\* C13: the snapshot that an evaluation compares against the freshness
\* cutoff is one of the volume's snapshots returned by the backend with the
\* maximum start time among them (and there is none to compare exactly when
\* the backend returned none for the volume).
C13_LatestIsNewest ==
  \A k \in 1..Len(evals) :
    LET listed == Listed(evals[k].volume)
    IN  /\ (evals[k].latest = Nil) <=> (listed = {})
        /\ listed # {} =>
             /\ evals[k].latest \in listed
             /\ \A s \in listed : s.StartTime <= evals[k].latest.StartTime

\* a pass has returned that evaluated a volume whose newest snapshot was not
\* the first one the backend listed
C13_Witness ==
  /\ pc = "returned"
  /\ \E k \in 1..Len(evals) :
       /\ Cardinality(Listed(evals[k].volume)) >= 2
       /\ \E i \in 1..Len(passStart.listing) :
            /\ passStart.listing[i].VolumeId = evals[k].volume
            /\ passStart.listing[i] # evals[k].latest
            /\ \A j \in 1..(i - 1) : passStart.listing[j].VolumeId # evals[k].volume

\* the pass has reached the loop over the rules
InRuleLoop == Len(calls) >= 2 /\ calls[1].ok /\ calls[2].ok

\* the loop over the volumes under rule number r has gone past volume v
PastVolume(r, v) ==
  \/ r < ri
  \/ /\ r = ri
     /\ pc \in {"volumes", "tags", "create", "sweep", "sleep", "panicked"}
     /\ v \in visited
     /\ (v # volume \/ pc = "volumes")

\* some rule of the configuration selects volume v
MatchesSomeRule(v) == \E r \in 1..Len(config) : Matches(r, v)

\* C14: a volume is evaluated under a rule if and only if one of its tags
\* has the key and the value of the rule's label (every evaluation is of a
\* matching volume, and every matching volume the rule's loop has gone past
\* was evaluated); a volume that matches no rule gets no CreateSnapshot call
\* and none of its snapshots gets a RemoveSnapshot call, in any pass.
C14_OnlyMatching ==
  InRuleLoop =>
    /\ \A k \in 1..Len(evals) : Matches(evals[k].rule, evals[k].volume)
    /\ \A r \in 1..Len(config) : \A v \in DOMAIN volumes :
         (PastVolume(r, v) /\ Matches(r, v)) => EvalsOf(r, v) # {}
    /\ \A v \in DOMAIN volumes :
         ~MatchesSomeRule(v) =>
           \A i \in 1..Len(calls) :
             /\ IsCreate(calls[i]) => calls[i].volume # v
             /\ IsRemove(calls[i]) =>
                  /\ calls[i].volume # v
                  /\ \A s \in Group(v) \cup Listed(v) :
                       s.SnapshotId # calls[i].snapshot

\* a pass has returned that removed a snapshot of a matching volume and left
\* alone a volume with an old snapshot whose tag has the key of a rule's
\* label and another value
C14_Witness ==
  /\ pc = "returned"
  /\ InRuleLoop
  /\ CallsWhere(LAMBDA c : IsRemove(c) /\ c.ok) # {}
  /\ \E v \in DOMAIN volumes :
       /\ ~MatchesSomeRule(v)
       /\ \E r \in 1..Len(config) : \E t \in 1..Len(volumes[v]) :
            volumes[v][t].Key = config[r].Labels.Key
       /\ \E s \in Listed(v) : \A r \in 1..Len(config) :
            Before(s.StartTime, passStart.now - config[r].RetentionPeriodHours * Hour)

RECURSIVE TotalOver(_, _)
TotalOver(counter, labels) ==
  IF labels = {} THEN 0
  ELSE LET l == CHOOSE x \in labels : TRUE
       IN  counter[l] + TotalOver(counter, labels \ {l})

Total(counter) == TotalOver(counter, DOMAIN counter)

RECURSIVE SumSeq(_)
SumSeq(s) == IF s = <<>> THEN 0 ELSE Head(s) + SumSeq(Tail(s))

\* the calls of the pass that is running or has just returned (those of a
\* pass the loop has finished with are counted in history)
PassCalls(P(_)) == IF pc = "idle" THEN 0 ELSE Cardinality(CallsWhere(P))

\* the CreateSnapshot calls that returned success, in all passes so far
CreatedSoFar ==
  SumSeq([ i \in 1..Len(history) |-> history[i].created ])
    + PassCalls(LAMBDA c : IsCreate(c) /\ c.ok)

\* the RemoveSnapshot calls that returned success, in all passes so far
RemovedSoFar ==
  SumSeq([ i \in 1..Len(history) |-> history[i].removed ])
    + PassCalls(LAMBDA c : IsRemove(c) /\ c.ok)

\* the CreateSnapshot and RemoveSnapshot calls that failed, in all passes so far
FailedSoFar ==
  SumSeq([ i \in 1..Len(history) |-> history[i].failed ])
    + PassCalls(LAMBDA c : (IsCreate(c) \/ IsRemove(c)) /\ ~c.ok)

\* no counter is below its value at the start of the pass
NotDecreased ==
  \A n \in 1..3 : \A l \in TagValues : counters[n][l] >= passStart.counters[n][l]

\* C16: the total of the created counter is the number of CreateSnapshot
\* calls that returned success, the total of the deleted counter is the
\* number of RemoveSnapshot calls that returned success, and no counter is
\* below its value at the start of the pass.
C16_CountersMatchSuccesses ==
  /\ Total(crCounter) = CreatedSoFar
  /\ Total(delCounter) = RemovedSoFar
  /\ NotDecreased

\* C17: the total of the error counter is the number of CreateSnapshot and
\* RemoveSnapshot calls that failed, and the created and deleted counters
\* count no failed call: their totals do not exceed the numbers of calls that
\* returned success.
C17_ErrorsMatchFailures ==
  /\ Total(errCounter) = FailedSoFar
  /\ Total(crCounter) <= CreatedSoFar
  /\ Total(delCounter) <= RemovedSoFar

\* the second pass has returned; a CreateSnapshot call failed in the first
\* pass and a RemoveSnapshot call failed in the second
C17_Witness ==
  /\ passes = 2
  /\ pc = "returned"
  /\ Len(history) = 1
  /\ history[1].failed = 1
  /\ history[1].removes = 0
  /\ CallsWhere(LAMBDA c : IsRemove(c) /\ ~c.ok) # {}
  /\ CallsWhere(LAMBDA c : IsRemove(c) /\ c.ok) # {}

\* the number of passes that have begun and that the loop of main has not
\* finished with
PassesInProgress == passes - Len(history)

\* C18: passes never overlap: at most one pass is in progress at any time,
\* none is in progress while the loop waits for the next interval, and a
\* pass in progress is the only one making client calls (the calls of the
\* pass are those made under the single position of the process).
C18_OnePassAtATime ==
  /\ PassesInProgress \in {0, 1}
  /\ (pc = "idle") <=> (PassesInProgress = 0)
  /\ pc \in {"snapshots", "rules", "volumes", "tags", "create", "sweep", "sleep"}
       => (Len(calls) >= 1 /\ calls[1].op = "GetVolumes"
           /\ \A i \in 2..Len(calls) : calls[i].op # "GetVolumes")

\* the second pass is in its sweep, after a first pass that removed a
\* snapshot and returned
C18_Witness ==
  /\ passes = 2
  /\ pc = "sweep"
  /\ Len(history) = 1
  /\ history[1].removes > 0

\* C20: between any two RemoveSnapshot calls made for snapshots of one
\* volume in a pass the delay of the sweep is taken: no two such calls are
\* issued back to back.
C20_DelayBetweenRemoves ==
  \A i, j \in 1..Len(calls) :
    (/\ i < j
     /\ IsRemove(calls[i]) /\ IsRemove(calls[j])
     /\ calls[i].volume = calls[j].volume)
      => \E k \in (i + 1)..(j - 1) :
           calls[k].op = "Sleep" /\ calls[k].volume = calls[i].volume

\* a pass has returned in which one sweep called RemoveSnapshot for two
\* snapshots of the volume, the first call failing
C20_Witness ==
  /\ pc = "returned"
  /\ \E i, j \in 1..Len(calls) :
       /\ i < j
       /\ IsRemove(calls[i]) /\ IsRemove(calls[j])
       /\ ~calls[i].ok
       /\ calls[i].rule = calls[j].rule
       /\ calls[i].volume = calls[j].volume
       /\ calls[i].snapshot # calls[j].snapshot

\* snapshot number n of the pool is held by the backend
Present(n) == \E i \in 1..Len(ec2Snapshots) : ec2Snapshots[i] = SnapshotPool[n]

\* snapshot number n of the pool is held by the backend, its volume carries
\* the label of rule number r, and its age exceeds the retention period of
\* the rule
StaleUnder(n, r) ==
  /\ r <= Len(config)
  /\ Present(n)
  /\ \E t \in 1..Len(ec2Volumes[SnapshotPool[n].VolumeId]) :
       /\ ec2Volumes[SnapshotPool[n].VolumeId][t].Key = config[r].Labels.Key
       /\ ec2Volumes[SnapshotPool[n].VolumeId][t].Value = config[r].Labels.Value
  /\ now - SnapshotPool[n].StartTime > config[r].RetentionPeriodHours * Hour

\* the run is followed no further: its last pass is over
RunEnded == passes = limit /\ pc = "idle"

\* C19: under fair scheduling, a snapshot of a volume that matches a rule
\* and whose age exceeds the retention period of the rule is eventually
\* deleted, in a run in which no client call fails (the run is followed for
\* MaxPasses passes).
C19_EventuallyPruned ==
  \A n \in 1..Len(SnapshotPool) : \A r \in 1..MaxRules :
    (StaleUnder(n, r) /\ failures = 0)
      ~> (~Present(n) \/ failures > 0 \/ RunEnded)

\* C21 (as stated): within a pass there is at most one GetVolumes and one
\* GetSnapshots call, no CreateSnapshot call for a volume follows a failed
\* one for that volume, and no RemoveSnapshot call for a snapshot follows a
\* failed one for that snapshot.
C21_NoRetryInPass ==
  /\ Cardinality(CallsWhere(LAMBDA c : c.op = "GetVolumes")) <= 1
  /\ Cardinality(CallsWhere(LAMBDA c : c.op = "GetSnapshots")) <= 1
  /\ \A i, j \in 1..Len(calls) :
       (i < j /\ IsCreate(calls[i]) /\ ~calls[i].ok /\ IsCreate(calls[j]))
         => calls[j].volume # calls[i].volume
  /\ \A i, j \in 1..Len(calls) :
       (i < j /\ IsRemove(calls[i]) /\ ~calls[i].ok /\ IsRemove(calls[j]))
         => calls[j].snapshot # calls[i].snapshot

\* C21 (amended): within a pass there is at most one GetVolumes and one
\* GetSnapshots call, and under one rule no CreateSnapshot call for a volume
\* follows a failed one for that volume and no RemoveSnapshot call for a
\* snapshot follows a failed one for that snapshot.
C21_NoRetryInEvaluation ==
  /\ Cardinality(CallsWhere(LAMBDA c : c.op = "GetVolumes")) <= 1
  /\ Cardinality(CallsWhere(LAMBDA c : c.op = "GetSnapshots")) <= 1
  /\ \A i, j \in 1..Len(calls) :
       (/\ i < j /\ IsCreate(calls[i]) /\ ~calls[i].ok /\ IsCreate(calls[j])
        /\ calls[j].rule = calls[i].rule)
         => calls[j].volume # calls[i].volume
  /\ \A i, j \in 1..Len(calls) :
       (/\ i < j /\ IsRemove(calls[i]) /\ ~calls[i].ok /\ IsRemove(calls[j])
        /\ calls[j].rule = calls[i].rule)
         => calls[j].snapshot # calls[i].snapshot

\* a pass has returned in which a CreateSnapshot call failed under one rule
\* and a RemoveSnapshot call failed under another rule for the same volume
C21_Witness ==
  /\ pc = "returned"
  /\ \E i, j \in 1..Len(calls) :
       /\ IsCreate(calls[i]) /\ ~calls[i].ok
       /\ IsRemove(calls[j]) /\ ~calls[j].ok
       /\ calls[i].volume = calls[j].volume
       /\ calls[i].rule # calls[j].rule

\* the steps of the retention sweep (RemoveSnapshot calls, and the delay
\* taken after every snapshot visited, removed or skipped) of the evaluation
\* of volume v under rule number r
SweepStepsIn(r, v) ==
  CallsWhere(LAMBDA c : /\ c.op \in {"RemoveSnapshot", "Sleep"}
                        /\ c.rule = r /\ c.volume = v)

C23_CreateWithoutSnapshot ==
  \A k \in 1..Len(evals) :
    (/\ evals[k].latest = Nil
     /\ \E i \in CreatesIn(evals[k].rule, evals[k].volume) : calls[i].ok)
      => /\ evals[k].outcome = "created"
         /\ pc # "panicked"
         /\ Total(crCounter) - Total(passStart.counters[1])
              = Cardinality(CallsWhere(LAMBDA c : IsCreate(c) /\ c.ok))
         /\ pc \in {"returned", "idle"}
              => /\ err = NoError
                 /\ \A r \in 1..Len(config) : \A v \in DOMAIN volumes :
                      Matches(r, v) => EvalsOf(r, v) # {}

\* the backend holds a snapshot of volume v
HasSnapshot(v) == \E i \in 1..Len(ec2Snapshots) : ec2Snapshots[i].VolumeId = v

\* every rule that selects volume v keeps snapshots for longer than its interval
RetainedBeyondInterval(v) ==
  \A r \in 1..Len(config) :
    Matches(r, v) =>
      config[r].RetentionPeriodHours * Hour > config[r].IntervalSeconds * Second

\* C24 (as stated): a pass never leaves a volume with zero snapshots: for
\* every matching volume that had a snapshot in the fetched index, the
\* backend still holds a snapshot of the volume, whatever the intervals and
\* retention periods.
C24_NeverZeroSnapshots ==
  InRuleLoop =>
    \A v \in DOMAIN volumes :
      (MatchesSomeRule(v) /\ Group(v) # {}) => HasSnapshot(v)

\* C24 (amended): the same, for volumes all of whose matching rules have a
\* retention period longer than their interval.
C24_NeverZeroWhenRetained ==
  InRuleLoop =>
    \A v \in DOMAIN volumes :
      (MatchesSomeRule(v) /\ Group(v) # {} /\ RetainedBeyondInterval(v))
        => HasSnapshot(v)

\* a pass has returned that created no snapshot for a volume and removed
\* one of its snapshots, under rules that retain beyond their interval
C24_Witness ==
  /\ pc = "returned"
  /\ InRuleLoop
  /\ \E v \in DOMAIN volumes :
       /\ MatchesSomeRule(v)
       /\ RetainedBeyondInterval(v)
       /\ Cardinality(Group(v)) >= 2
       /\ CallsWhere(LAMBDA c : IsCreate(c) /\ c.volume = v) = {}
       /\ CallsWhere(LAMBDA c : IsRemove(c) /\ c.volume = v /\ c.ok) # {}

\* the position of x in the list s
PositionIn(s, x) == CHOOSE i \in 1..Len(s) : s[i] = x

\* C25: SortSnapshotsByStartTime is stable: any two snapshots of the list
\* with equal start times are in the sorted list in the order in which they
\* were in the list.
C25_Stable ==
  \A h \in 1..Len(history) :
    \A i, j \in 1..Len(history[h].input) :
      (i < j /\ history[h].input[i].StartTime = history[h].input[j].StartTime)
        => PositionIn(history[h].output, history[h].input[i])
             < PositionIn(history[h].output, history[h].input[j])

\* C26: when WatchSnapshots has returned an error, the loop of main has
\* logged that error before it waits for the next pass.
C26_ErrorLogged ==
  \A i \in 1..Len(history) :
    history[i].err # NoError => history[i].logged

\* C27: the loop drives passes forever: after every pass that has begun,
\* whatever it returned and whatever calls failed in it, another pass
\* eventually begins (the run is followed for MaxPasses passes).
C27_AnotherPassBegins ==
  \A n \in 1..(MaxPasses - 1) : (passes = n) ~> (passes = n + 1)

\* the call of GetVolumes / of GetSnapshots that SpecPages follows
InGetVolumes ==
  pc \in {"describeVolumes", "moreVolumes", "volumesReturned", "volumesFailed"}
InGetSnapshots ==
  pc \in {"describeSnapshots", "moreSnapshots", "snapshotsReturned", "snapshotsFailed"}

\* the requests made so far asked for the pages 1, 2, 3, ... in turn
PagesInTurn == \A i \in 1..Len(requests) : requests[i] = i

\* C28: GetVolumes requests each page of the volume list once, and the map
\* it returns holds every volume of every page under its volume id.
C28_VolumesPagedOnce ==
  InGetVolumes =>
    /\ PagesInTurn
    /\ pc = "volumesReturned" => volumes = ec2Volumes

\* the groups of the index hold the snapshots of the listing, each once and
\* under its volume id, in descending order of start time
IsIndexOf(index, list) ==
  /\ \A i \in 1..Len(list) :
       /\ list[i].VolumeId \in DOMAIN index
       /\ Count(index[list[i].VolumeId], list[i]) = 1
  /\ \A v \in DOMAIN index :
       /\ Len(index[v]) > 0
       /\ \A i \in 1..Len(index[v]) : index[v][i].VolumeId = v
       /\ \A i, j \in 1..Len(index[v]) :
            i < j => index[v][i].StartTime >= index[v][j].StartTime
  /\ SumOfLens(index, DOMAIN index) = Len(list)

\* C29: GetSnapshots terminates on a snapshot list served in finitely many
\* pages; it requests the pages in turn, each with the token of the page
\* before; the index it returns holds every snapshot of every page, grouped
\* by volume id, each group newest first; when a request fails it returns
\* the error and no index.
C29_SnapshotsPaged ==
  /\ [](InGetSnapshots =>
          /\ PagesInTurn
          /\ Len(requests) <= NumPages(ec2Snapshots)
          /\ pc = "snapshotsReturned" =>
               /\ Len(requests) = NumPages(ec2Snapshots)
               /\ IsIndexOf(snapshots, ec2Snapshots)
               /\ err = NoError
          /\ pc = "snapshotsFailed" =>
               /\ err = "error while describing snapshots: " \o AwsError
               /\ snapshots = EmptyIndex)
  /\ (pc = "describeSnapshots") ~> (pc \in {"snapshotsReturned", "snapshotsFailed"})

\* a list of three snapshots of two volumes, served in three pages, was
\* returned as an index
C29_Witness ==
  /\ pc = "snapshotsReturned"
  /\ Len(requests) = 3
  /\ Len(ec2Snapshots) = 3
  /\ Cardinality(DOMAIN snapshots) = 2

\* the CreateSnapshot calls of the pass for volume v
CreatesFor(v) == CallsWhere(LAMBDA c : IsCreate(c) /\ c.volume = v)

\* C30 (as stated): within one pass a volume receives at most one
\* CreateSnapshot call, whatever the rules, overlapping or not.
C30_OneCreatePerPass ==
  \A v \in VolumeIds : Cardinality(CreatesFor(v)) <= 1

\* C30 (amended): within one pass a volume receives at most one
\* CreateSnapshot call under each rule, and only under rules whose label it
\* carries; the calls it receives in the pass are at most as many as the
\* rules that match it.
C30_OneCreatePerRule ==
  \A v \in VolumeIds :
    /\ \A r \in 1..Len(config) :
         /\ Cardinality(CreatesIn(r, v)) <= 1
         /\ CreatesIn(r, v) # {} => Matches(r, v)
    /\ CreatesFor(v) # {} =>
         Cardinality(CreatesFor(v))
           <= Cardinality({ r \in 1..Len(config) : Matches(r, v) })

\* a pass has returned in which CreateSnapshot succeeded twice for one
\* volume, under two rules
C30_Witness ==
  /\ pc = "returned"
  /\ \E i, j \in 1..Len(calls) :
       /\ IsCreate(calls[i]) /\ calls[i].ok
       /\ IsCreate(calls[j]) /\ calls[j].ok
       /\ calls[i].volume = calls[j].volume
       /\ calls[i].rule < calls[j].rule

\* the RemoveSnapshot calls of the pass for the snapshot of id n
RemovesOf(n) == CallsWhere(LAMBDA c : IsRemove(c) /\ c.snapshot = n)

\* the ids of the snapshots RemoveSnapshot was called with in the pass
RemovedIds == { calls[i].snapshot : i \in CallsWhere(IsRemove) }

\* C31 (as stated): within one pass RemoveSnapshot is called at most once
\* for a snapshot, whatever the rules, overlapping or not; it is not called
\* for a snapshot the pass has already deleted.
C31_OneRemovePerPass ==
  \A n \in RemovedIds : Cardinality(RemovesOf(n)) <= 1

\* C31 (amended): within one pass RemoveSnapshot is called at most once for
\* a snapshot under each rule, and only under rules that match the
\* snapshot's volume; the calls for a snapshot in the pass are at most as
\* many as the rules that match its volume.
C31_OneRemovePerRule ==
  \A n \in RemovedIds :
    /\ \A i, j \in RemovesOf(n) : calls[i].rule = calls[j].rule => i = j
    /\ \A i \in RemovesOf(n) : Matches(calls[i].rule, calls[i].volume)
    /\ \A i \in RemovesOf(n) :
         Cardinality(RemovesOf(n))
           <= Cardinality({ r \in 1..Len(config) : Matches(r, calls[i].volume) })

\* a pass has returned in which a snapshot was removed under one rule and
\* RemoveSnapshot was called for it again under a later rule
C31_Witness ==
  /\ pc = "returned"
  /\ \E i, j \in 1..Len(calls) :
       /\ IsRemove(calls[i]) /\ calls[i].ok
       /\ IsRemove(calls[j])
       /\ calls[i].snapshot = calls[j].snapshot
       /\ calls[i].rule < calls[j].rule

\* the ids of the snapshots CreateSnapshot has created in the pass
CreatedIds == { calls[i].snapshot : i \in CallsWhere(LAMBDA c : IsCreate(c) /\ c.ok) }

\* C32: RemoveSnapshot is only called with a snapshot that the index fetched
\* at the start of the pass holds in the group of the call's volume, a
\* volume that carries the label of the rule being evaluated; the snapshot
\* was held by the backend when the pass began and was not created by the
\* pass.
C32_OnlyFetchedSnapshots ==
  \A i \in CallsWhere(IsRemove) :
    /\ calls[i].volume \in DOMAIN volumes
    /\ Matches(calls[i].rule, calls[i].volume)
    /\ \E p \in 1..Len(Lookup(snapshots, calls[i].volume)) :
         /\ snapshots[calls[i].volume][p].SnapshotId = calls[i].snapshot
         /\ snapshots[calls[i].volume][p].VolumeId = calls[i].volume
    /\ \E q \in 1..Len(passStart.listing) :
         passStart.listing[q].SnapshotId = calls[i].snapshot
    /\ calls[i].snapshot \notin CreatedIds

\* a pass has returned that created a snapshot for a volume under a rule
\* with no retention and removed another snapshot of the volume, while the
\* backend still holds the snapshot the pass created
C32_Witness ==
  /\ pc = "returned"
  /\ \E i, j \in 1..Len(calls) :
       /\ i < j
       /\ IsCreate(calls[i]) /\ calls[i].ok
       /\ IsRemove(calls[j]) /\ calls[j].ok
       /\ calls[i].volume = calls[j].volume
       /\ calls[i].rule = calls[j].rule
       /\ config[calls[i].rule].RetentionPeriodHours = 0
       /\ \E q \in 1..Len(ec2Snapshots) : ec2Snapshots[q].SnapshotId = calls[i].snapshot

\* the pass has ended, by returning or by panicking, after both fetches
\* succeeded
PassEndedAfterFetch ==
  /\ pc \in {"returned", "panicked"}
  /\ Len(calls) >= 2
  /\ calls[1].ok /\ calls[2].ok

\* the decision of createNewEBSSnapshot for evaluation e, from the rule, the
\* fetched index and the time of the evaluation
CreateDue(e) ==
  LET group == Lookup(snapshots, e.volume)
  IN  \/ Len(group) = 0
      \/ Before(group[1].StartTime, FreshnessCutoff(e))
      \/ group[1].State = "error"

\* the snapshots removeOldEBSSnapshot hands to RemoveSnapshot in evaluation
\* e, from the rule, the fetched index and the time of the evaluation
RemoveDue(e) ==
  { s.SnapshotId : s \in { t \in Group(e.volume) :
                             ~After(t.StartTime, RetentionCutoff(e)) } }

\* C33: the CreateSnapshot and RemoveSnapshot calls of a pass that has ended
\* are those fixed by the rules, the fetched volumes and index, the time of
\* each evaluation and the responses of the pass: every rule is evaluated
\* once on every volume it matches, CreateSnapshot is called exactly when
\* the latest snapshot is missing, too old or in error, and RemoveSnapshot is
\* called for exactly the snapshots past the retention cutoff unless
\* CreateSnapshot failed.  No counter and nothing of an earlier pass enters.
C33_CallsDetermined ==
  PassEndedAfterFetch =>
    /\ \A r \in 1..Len(config) : \A v \in DOMAIN volumes :
         Cardinality(EvalsOf(r, v)) = IF Matches(r, v) THEN 1 ELSE 0
    /\ \A k \in 1..Len(evals) :
         LET e == evals[k]
             creates == CreatesIn(e.rule, e.volume)
         IN  /\ Cardinality(creates) = IF CreateDue(e) THEN 1 ELSE 0
             /\ RemovedIn(e) =
                  IF \E i \in creates : ~calls[i].ok THEN {} ELSE RemoveDue(e)
             /\ Cardinality(RemovesIn(e.rule, e.volume)) = Cardinality(RemovedIn(e))

\* C34: for every snapshot list, the index of MapMostRecentSnapshotToVolumes
\* and the index of MapSnapshotsToVolumes with every group sorted by
\* SortSnapshotsByStartTime have the same volume ids, and for each volume id
\* the snapshot the former keeps started when the first snapshot of the
\* latter's group started.
C34_SameLatest ==
  pc = "both" =>
    /\ DOMAIN lastSnapshots = DOMAIN snapshots
    /\ \A v \in DOMAIN snapshots :
         lastSnapshots[v].StartTime = snapshots[v][1].StartTime

\* both indices were built from a list of three snapshots of one volume in
\* which the newest is neither first nor last and two started together
C34_Witness ==
  /\ pc = "both"
  /\ Len(ec2Snapshots) = 3
  /\ \E v \in DOMAIN snapshots :
       /\ Len(snapshots[v]) = 3
       /\ lastSnapshots[v] = ec2Snapshots[2]
       /\ snapshots[v][2].StartTime = snapshots[v][3].StartTime

\* the value of the child counter of the labels (0 when it was never used)
ValueOf(counter, labels) ==
  IF labels \in DOMAIN counter THEN counter[labels] ELSE 0

\* the deleteSnapshot calls of the iteration for snapshot n of volume v
DeletesOf(v, n) ==
  CallsWhere(LAMBDA c : c.op = "deleteSnapshot" /\ c.volume = v /\ c.snapshot = n)

\* C35: in the single-file program old_snapshots_removed is incremented
\* exactly when RemoveOldSnapshot invoked deleteSnapshot: in every iteration
\* the counter of a volume and snapshot has grown by the number of
\* deleteSnapshot calls made for that snapshot, and not at all for a snapshot
\* within retention.
C35_CountsDeletions ==
  \A v \in VolumeIds : \A n \in 1..(nextId - 1) :
    ValueOf(delCounter, <<v, n>>) - ValueOf(passStart.counters[2], <<v, n>>)
      = Cardinality(DeletesOf(v, n))

\* a fetch of the iteration failed
FetchFailed == \E i \in 1..Len(calls) :
  calls[i].op \in {"getVolumes", "getSnapshots"} /\ ~calls[i].ok

\* C36: in the single-file program an iteration in which getVolumes or
\* getSnapshots failed makes no makeSnapshot and no deleteSnapshot call and
\* reaches the wait.
C36_NoActionAfterFetchError ==
  FetchFailed =>
    /\ CallsWhere(LAMBDA c : c.op \in {"makeSnapshot", "deleteSnapshot"}) = {}
    /\ pc # "panicked"

\* C37: in the single-file program, when makeSnapshot failed for a volume
\* in an iteration, deleteSnapshot is not called for the last snapshot of
\* that volume in the iteration.
C37_NoDeleteAfterFailedCreate ==
  \A i, j \in 1..Len(calls) :
    (calls[i].op = "makeSnapshot" /\ ~calls[i].ok /\ calls[j].op = "deleteSnapshot")
      => calls[j].volume # calls[i].volume

====
